---- MODULE Spec2Model ----
(***************************************************************************)
(* Model of the movie recommendation engine                                *)
(* (src/recommendation_engine.py, class MovieRecommender).                 *)
(*                                                                         *)
(* Numbers.  The engine computes with IEEE doubles; the model computes     *)
(* with fixed-point integers.  idf weights (IdfScale) and matrix entries   *)
(* and cosine similarities (UnitScale) are in ten-thousandths, so a        *)
(* similarity of 10000 is the cosine 1.0 and a similarity s is the         *)
(* Similarity_Score s/100 percent of the code.  Normalization and cosine   *)
(* round to the nearest unit of the scale.  Zero entries, equal scores,    *)
(* the cosine 1.0 of equal rows and the order of the scores are exact.     *)
(*                                                                         *)
(* Text.  A storyline is a sequence of whitespace-separated words (each a  *)
(* string); a title is a sequence of characters (each a one-character      *)
(* string), because title resolution works on characters.  An empty cell   *)
(* of a CSV file is what pandas reads as NaN: it is the empty sequence.    *)
(***************************************************************************)
EXTENDS Integers, Sequences, FiniteSets, TLC

(* ---------------------------------------------------------------------- *)
(* Bounds of the model                                                     *)
(* ---------------------------------------------------------------------- *)

\* Largest number of rows of a generated corpus file.
MaxDocs == 4

\* top_n is drawn from 1..MaxTopN.
MaxTopN == 4

(* ---------------------------------------------------------------------- *)
(* Program constants                                                       *)
(* ---------------------------------------------------------------------- *)

max_features == 5000

min_df == 2

\* max_df = 0.8, as the fraction max_df_num / max_df_den.
max_df_num == 8

max_df_den == 10

\* ngram_range = (1, 2): the longest n-gram.
ngram_max == 2

\* preprocess_storylines keeps the storylines longer than this many characters.
min_storyline_len == 20

\* Fixed-point scale of the idf weights.
IdfScale == 10000

\* Fixed-point scale of normalized matrix entries and of cosine similarity:
\* round(cos * 100, 2) holds cos to four decimals.
UnitScale == 10000

(* ---------------------------------------------------------------------- *)
(* Generic helpers                                                         *)
(* ---------------------------------------------------------------------- *)

Min(a, b) == IF a <= b THEN a ELSE b

Max(a, b) == IF a >= b THEN a ELSE b

Range(s) == {s[i] : i \in DOMAIN s}

RECURSIVE SumTo(_, _)
\* f[1] + ... + f[n]
SumTo(f, n) == IF n = 0 THEN 0 ELSE f[n] + SumTo(f, n - 1)

Dot(u, v) == SumTo([i \in 1..Len(u) |-> u[i] * v[i]], Len(u))

RECURSIVE ISqrtBetween(_, _, _)
\* The largest r in lo..hi with r*r <= n (lo*lo <= n is given).
ISqrtBetween(n, lo, hi) ==
    IF lo >= hi THEN lo
    ELSE LET mid == (lo + hi + 1) \div 2
         IN IF mid * mid <= n THEN ISqrtBetween(n, mid, hi)
                              ELSE ISqrtBetween(n, lo, mid - 1)

\* floor(sqrt(n)) for 0 <= n < 2^31.
ISqrt(n) == ISqrtBetween(n, 0, 46340)

RECURSIVE CmpFrac(_, _, _, _)
\* a/b compared with c/d (a, c >= 0 and b, d > 0): -1, 0 or 1.  Exact, and
\* without forming a product: the integer parts decide, or else the
\* fractional parts, compared through their reciprocals.
CmpFrac(a, b, c, d) ==
    IF a \div b # c \div d THEN (IF a \div b < c \div d THEN -1 ELSE 1)
    ELSE IF a % b = 0 /\ c % d = 0 THEN 0
    ELSE IF a % b = 0 THEN -1
    ELSE IF c % d = 0 THEN 1
    ELSE CmpFrac(d, c % d, b, a % b)

RECURSIVE RoundedRatio(_, _, _)
\* round(num * scale / den) for a power of ten scale, 0 <= num and
\* 0 < den < 2^31 / 10: long division, one decimal digit at a time.
RoundedRatio(num, den, scale) ==
    IF scale = 1
    THEN num \div den + (IF 2 * (num % den) >= den THEN 1 ELSE 0)
    ELSE (num \div den) * scale + RoundedRatio((num % den) * 10, den, scale \div 10)

\* The permutations of 0..n-1, as sequences of length n.
Perms(n) == {p \in [1..n -> 0..(n - 1)] : \A i, j \in 1..n : i # j => p[i] # p[j]}

\* Python's a[lo:hi] for 0 <= lo, hi (already clamped), on a TLA+ sequence.
Slice(s, lo, hi) == IF hi <= lo THEN <<>> ELSE SubSeq(s, lo + 1, hi)

\* Python's a[::-1].
Reverse(s) == [i \in 1..Len(s) |-> s[Len(s) + 1 - i]]

(* ---------------------------------------------------------------------- *)
(* Words and terms                                                         *)
(* ---------------------------------------------------------------------- *)

\* The words of the model's texts in Python's string order.
Words == <<"a", "bake", "bakes", "battles", "boy", "bread", "chef", "dark",
           "evil", "fight", "fights", "hero", "in", "lord", "pirate", "pirates",
           "save", "saves", "small", "space", "steal", "the", "town",
           "treasure", "wizard", "world">>

WordRank(w) == CHOOSE i \in 1..Len(Words) : Words[i] = w

\* A term is a sequence of 1 or 2 words (the words joined by one space).
\* String order: the first differing word decides, a prefix sorts first
\* (a space sorts before every letter).
TermLess(s, t) ==
    \E k \in 1..(Min(Len(s), Len(t)) + 1) :
        /\ \A j \in 1..(k - 1) : s[j] = t[j]
        /\ \/ k > Len(s) /\ k <= Len(t)
           \/ k <= Len(s) /\ k <= Len(t) /\ WordRank(s[k]) < WordRank(t[k])

RECURSIVE SortTerms(_)
\* sorted(terms), as a sequence.
SortTerms(S) ==
    IF S = {} THEN <<>>
    ELSE LET m == CHOOSE x \in S : \A y \in S \ {x} : TermLess(x, y)
         IN <<m>> \o SortTerms(S \ {m})

(* ---------------------------------------------------------------------- *)
(* TfidfVectorizer(max_features=5000, min_df=2, max_df=0.8,                *)
(*                 ngram_range=(1, 2))                                     *)
(* ---------------------------------------------------------------------- *)

\* The default token_pattern (?u)\b\w\w+\b keeps the words of two or more
\* characters (the texts of the model are lower case and hold only letters).
Tokenize(doc) == SelectSeq(doc, LAMBDA w : Len(w) >= 2)

\* The n-grams of a token sequence for ngram_range = (1, ngram_max).
Ngrams(tokens) ==
    {SubSeq(tokens, i, i + k - 1) :
        <<i, k>> \in {<<i, k>> \in (1..Len(tokens)) \X (1..ngram_max) :
                          i + k - 1 <= Len(tokens)}}

\* How often a term occurs in a token sequence.
TermCount(tokens, term) ==
    Cardinality({i \in 1..Len(tokens) :
                    /\ i + Len(term) - 1 <= Len(tokens)
                    /\ SubSeq(tokens, i, i + Len(term) - 1) = term})

\* Document frequency of a term in a sequence of token sequences.
DocFreq(toks, term) ==
    Cardinality({d \in 1..Len(toks) : TermCount(toks[d], term) > 0})

\* Total count of a term in the corpus (the tfs of _limit_features).
TotalCount(toks, term) ==
    SumTo([d \in 1..Len(toks) |-> TermCount(toks[d], term)], Len(toks))

\* _limit_features: keep min_df <= df <= max_df * n_doc, then at most
\* max_features terms of the highest total count.
LimitFeatures(toks, cand) ==
    LET n    == Len(toks)
        kept == {t \in cand : /\ DocFreq(toks, t) >= min_df
                              /\ DocFreq(toks, t) * max_df_den <= max_df_num * n}
    IN IF Cardinality(kept) <= max_features THEN kept
       ELSE CHOOSE S \in SUBSET kept :
              /\ Cardinality(S) = max_features
              /\ \A t \in S, u \in kept \ S :
                     TotalCount(toks, t) >= TotalCount(toks, u)

RECURSIVE LnSeries(_, _, _)
\* zpow/k + zpow*z2/(k+2) + ... up to the eleventh power, at scale 10*IdfScale.
LnSeries(zpow, z2, k) ==
    IF k > 11 THEN 0
    ELSE zpow \div k + LnSeries((zpow * z2) \div (10 * IdfScale), z2, k + 2)

\* ln(a / b) for a >= b > 0 at scale IdfScale, by
\* ln(x) = 2 * atanh((x - 1) / (x + 1)).
LnRatio(a, b) ==
    LET z  == ((a - b) * 10 * IdfScale) \div (a + b)
        z2 == (z * z) \div (10 * IdfScale)
    IN (2 * LnSeries(z, z2, 1) + 5) \div 10

\* smooth_idf: idf(t) = ln((1 + n) / (1 + df(t))) + 1.
Idf(n, dfreq) == LnRatio(1 + n, 1 + dfreq) + IdfScale

RECURSIVE RoundedUnitBetween(_, _, _, _)
\* round(UnitScale * x / sqrt(sq)) for 0 < x, x*x <= sq: the largest q in
\* lo..hi with (2q - 1)^2 * sq <= (2 * UnitScale * x)^2, found by bisection
\* with exact comparisons.
RoundedUnitBetween(x, sq, lo, hi) ==
    IF lo >= hi THEN lo
    ELSE LET mid == (lo + hi + 1) \div 2
         IN IF CmpFrac(sq, x * x, 4 * UnitScale * UnitScale,
                       (2 * mid - 1) * (2 * mid - 1)) <= 0
            THEN RoundedUnitBetween(x, sq, mid, hi)
            ELSE RoundedUnitBetween(x, sq, lo, mid - 1)

\* normalize(row, norm='l2'): every entry divided by the row's length, to
\* the nearest unit of the scale; a zero row stays zero.  With r the whole
\* part of the length, the quotient lies between x / (r + 1) and x / r,
\* which brackets the search for its rounded value.
Normalize(row) ==
    LET sq == Dot(row, row)
        r  == ISqrt(sq)
    IN IF sq = 0 THEN row
       ELSE [j \in 1..Len(row) |->
                IF row[j] = 0 THEN 0
                ELSE RoundedUnitBetween(row[j], sq,
                         (row[j] * UnitScale) \div (r + 1),
                         Min(UnitScale, (row[j] * UnitScale) \div r + 1))]

\* One row of the tf-idf matrix: count * idf, then unit length.
TfidfRow(tokens, vocabulary, idf) ==
    Normalize([j \in 1..Len(vocabulary) |->
                  TermCount(tokens, vocabulary[j]) * idf[j]])

\* An unfitted vectorizer, as constructed at line 25.
UnfittedVectorizer == [state |-> "unfitted", vocabulary_ |-> <<>>, idf_ |-> <<>>]

NoVectorizer == [state |-> "None", vocabulary_ |-> <<>>, idf_ |-> <<>>]

NoMatrix == [present |-> FALSE, rows |-> <<>>, ncols |-> 0]

\* fit_transform on the column of documents.  An empty cell (NaN) is not a
\* string and no vocabulary, max_df*n < min_df, or no term left after
\* pruning all raise ValueError.
FitTransform(docs) ==
    LET n     == Len(docs)
        toks  == [d \in 1..n |-> Tokenize(docs[d])]
        cand  == UNION {Ngrams(toks[d]) : d \in 1..n}
        kept  == LimitFeatures(toks, cand)
        vocab == SortTerms(kept)
        idf   == [j \in 1..Len(vocab) |-> Idf(n, DocFreq(toks, vocab[j]))]
    IN IF \/ \E d \in 1..n : docs[d] = <<>>
          \/ cand = {}
          \/ max_df_num * n < min_df * max_df_den
          \/ kept = {}
       THEN [status |-> "ValueError", vectorizer |-> UnfittedVectorizer,
             matrix |-> NoMatrix]
       ELSE [status |-> "ok",
             vectorizer |-> [state |-> "fitted", vocabulary_ |-> vocab,
                             idf_ |-> idf],
             matrix |-> [present |-> TRUE,
                         rows |-> [d \in 1..n |-> TfidfRow(toks[d], vocab, idf)],
                         ncols |-> Len(vocab)]]

\* transform([processed]) of a fitted vectorizer: one row over the fixed
\* vocabulary and weights.
Transform(vectorizer, processed) ==
    TfidfRow(Tokenize(processed), vectorizer.vocabulary_, vectorizer.idf_)

\* The cosine of two normalized rows, to the nearest unit of the scale.
\* The entries of u and v are rounded, so the rows are of length one only
\* up to that rounding; the product is divided by the rows' lengths as
\* they are, |u||v| taken as (|u|^2 + |v|^2) / 2, which differs from it by
\* less than 1e-7 for such rows and is exact for equal rows: a row has
\* cosine 1 with itself and with a duplicate, as in the code.
Cosine(u, v) ==
    IF Dot(u, v) = 0 THEN 0
    ELSE RoundedRatio(2 * Dot(u, v), Dot(u, u) + Dot(v, v), UnitScale)

\* cosine_similarity(x, Y).flatten(): both sides are normalized again and
\* multiplied.
CosineSimilarity(x, Y) ==
    LET xn == Normalize(x)
    IN [i \in 1..Len(Y) |-> Cosine(xn, Normalize(Y[i]))]

(* ---------------------------------------------------------------------- *)
(* CSV files                                                               *)
(* ---------------------------------------------------------------------- *)

\* One CSV row.  Movie_Name is a sequence of characters; <<>> is an empty
\* cell (NaN) in either text column.  Storyline is only displayed by the
\* engine; the rows of the corpus build pipeline hold it as its sequence of
\* words, <<>> being the empty cell.
Row(name, story, processed) ==
    [Movie_Name |-> name, Storyline |-> story, Processed_Storyline |-> processed]

\* The rows that the generated corpus files are prefixes of.
Library ==
    << Row(<<"A", ".">>,      "A hero saves the world",   <<"hero", "save", "world">>),
       Row(<<>>,              "The hero saves a world",   <<"hero", "save", "world">>),
       Row(<<"c">>,           "A chef bakes bread",       <<"chef", "bake", "bread">>),
       Row(<<"a", "b", "(">>, "A hero fights evil",       <<"hero", "fight", "evil">>),
       Row(<<"b", "a">>,      "The chef fights evil",     <<"chef", "fight", "evil">>),
       Row(<<"b">>,           "A hero in space",          <<"hero", "in", "space">>) >>

ProcessedColumns == {"Movie_Name", "Storyline", "Processed_Storyline"}

\* A file written by the dataset creators has no Processed_Storyline.
RawColumns == {"Movie_Name", "Storyline"}

CsvFile(cols, rows) == [exists |-> TRUE, columns |-> cols, rows |-> rows]

MissingCsv == [exists |-> FALSE, columns |-> {}, rows |-> <<>>]

\* The first n rows of the library, preprocessed.
PrefixCsv(n) == CsvFile(ProcessedColumns, SubSeq(Library, 1, Min(n, Len(Library))))

\* The three-document scenario of the specification, fitted as written.
ScenarioCsv ==
    CsvFile(ProcessedColumns,
      << Row(<<"A">>, "a wizard boy fights a dark lord",
             <<"a", "wizard", "boy", "fights", "a", "dark", "lord">>),
         Row(<<"B">>, "a wizard boy battles a dark lord",
             <<"a", "wizard", "boy", "battles", "a", "dark", "lord">>),
         Row(<<"C">>, "a chef bakes bread in a small town",
             <<"a", "chef", "bakes", "bread", "in", "a", "small", "town">>) >>)

\* imdb_movies_2024.csv as the dataset creators write it.
RawCsv ==
    CsvFile(RawColumns,
            [i \in 1..Min(3, Len(Library)) |->
                Row(Library[i].Movie_Name, Library[i].Storyline, <<>>)])

\* The files load_data may be pointed at.
CsvFiles == {PrefixCsv(n) : n \in 2..MaxDocs} \cup {ScenarioCsv, RawCsv, MissingCsv}

(* ---------------------------------------------------------------------- *)
(* The engine instance and the artifact file                               *)
(* ---------------------------------------------------------------------- *)

VARIABLES
    df,                \* self.df
    tfidf_vectorizer,  \* self.tfidf_vectorizer
    tfidf_matrix,      \* self.tfidf_matrix
    disk,              \* the file movie_recommender.pkl
    pc,                \* "idle", or "dumping" inside save_model
    model_data,        \* the local model_data of a running save_model
    saved,             \* history: the fields of the instance whose save_model last opened the file
    last,              \* history: the last operation and how it ended
    result,            \* the value a query returned, until the caller takes it
    raw_csv,           \* the file imdb_movies_2024.csv
    processed_csv,     \* the file imdb_movies_processed.csv
    calls,             \* per session thread of the app: the locals of its running query
    argsort_seen       \* history: the inputs argsort was called on, each with the order it gave

vars == <<df, tfidf_vectorizer, tfidf_matrix, disk, pc, model_data, saved, last,
          result, raw_csv, processed_csv, calls, argsort_seen>>

\* The two corpus files of the working directory.
csv_files == <<raw_csv, processed_csv>>

\* The session threads of the app and what they have seen of argsort.
serving == <<calls, argsort_seen>>

\* self.df = None
NoDf == [loaded |-> FALSE, columns |-> {}, rows |-> <<>>]

DataFrame(csv) == [loaded |-> TRUE, columns |-> csv.columns, rows |-> csv.rows]

NoModelData == [df |-> NoDf, tfidf_vectorizer |-> NoVectorizer, tfidf_matrix |-> NoMatrix]

\* A save_model that forgets the matrix.
ModelDataWithoutMatrix(d, v, m) ==
    [df |-> d, tfidf_vectorizer |-> v, tfidf_matrix |-> NoMatrix]

\* The dictionary built at the start of save_model.
ModelData(d, v, m) == [df |-> d, tfidf_vectorizer |-> v, tfidf_matrix |-> m]

NoFile == [exists |-> FALSE, content |-> <<>>]

\* One piece of the pickle stream: a dictionary key with its value (the
\* other two fields are padding), or the STOP opcode.
Frame(key, d, v, m) ==
    [key |-> key, df |-> d, tfidf_vectorizer |-> v, tfidf_matrix |-> m]

\* pickle.dump(model_data, f): the byte stream, as the frames written in
\* order: one per dictionary item, then the STOP opcode.
PickleDump(md) ==
    << Frame("df", md.df, NoVectorizer, NoMatrix),
       Frame("tfidf_vectorizer", NoDf, md.tfidf_vectorizer, NoMatrix),
       Frame("tfidf_matrix", NoDf, NoVectorizer, md.tfidf_matrix),
       Frame("STOP", NoDf, NoVectorizer, NoMatrix) >>

\* The frame of a key in a complete stream.
FrameOf(content, key) == content[CHOOSE i \in 1..Len(content) : content[i].key = key]

\* pickle.load(f), the outcomes it can have.  A stream that ends before
\* STOP raises: EOFError when the bytes end on an opcode boundary (always
\* so for an empty file), UnpicklingError when they end inside an opcode's
\* argument; a file cut after the pieces written so far may end either
\* way.  Otherwise the dictionary is rebuilt from its items.
PickleLoad(content) ==
    IF content = <<>> THEN {[status |-> "EOFError", data |-> NoModelData]}
    ELSE IF content[Len(content)].key # "STOP"
    THEN {[status |-> "EOFError", data |-> NoModelData],
          [status |-> "UnpicklingError", data |-> NoModelData]}
    ELSE {[status |-> "ok",
           data |-> [df |-> FrameOf(content, "df").df,
                     tfidf_vectorizer |->
                         FrameOf(content, "tfidf_vectorizer").tfidf_vectorizer,
                     tfidf_matrix |-> FrameOf(content, "tfidf_matrix").tfidf_matrix]]}

\* The file holds a complete pickle stream.
CompleteArtifact(f) ==
    f.exists /\ \E got \in PickleLoad(f.content) : got.status = "ok"

\* The dictionary a complete pickle stream holds.
Unpickled(content) == (CHOOSE got \in PickleLoad(content) : got.status = "ok").data

NoResult == [op |-> "none"]

NoSaved == [data |-> NoModelData, replaced |-> FALSE]

\* The session threads that share the cached recommender.
Workers == {1, 2}

\* A thread that is running no query.
IdleCall ==
    [pc |-> "idle", op |-> "none", query |-> <<>>, top_n |-> 0, env |-> "unused",
     movie_idx |-> -1, processed |-> <<>>, vector |-> <<>>, scores |-> <<>>,
     similar_indices |-> <<>>, result |-> NoResult, overlapped |-> FALSE]

\* __init__, in a new process; the working directory holds no file yet.
Init ==
    /\ df = NoDf
    /\ tfidf_vectorizer = NoVectorizer
    /\ tfidf_matrix = NoMatrix
    /\ disk = NoFile
    /\ pc = "idle"
    /\ model_data = NoModelData
    /\ saved = NoSaved
    /\ last = [op |-> "__init__", status |-> "ok"]
    /\ result = NoResult
    /\ raw_csv = MissingCsv
    /\ processed_csv = MissingCsv
    /\ calls = [w \in Workers |-> IdleCall]
    /\ argsort_seen = {}

(* ---------------------------------------------------------------------- *)
(* Training and persistence                                                *)
(* ---------------------------------------------------------------------- *)

Ended(op, status) == [op |-> op, status |-> status]

\* An operation starts when the instance is idle and the caller holds no
\* pending return value (the engine is single-threaded and synchronous).
Ready == pc = "idle" /\ result = NoResult

\* load_data(csv_file): pd.read_csv raises FileNotFoundError on a missing
\* file; otherwise only self.df is replaced.
LoadData(csv) ==
    /\ Ready
    /\ IF csv.exists
       THEN /\ df' = DataFrame(csv)
            /\ last' = Ended("load_data", "ok")
       ELSE /\ df' = df
            /\ last' = Ended("load_data", "FileNotFoundError")
    /\ UNCHANGED <<tfidf_vectorizer, tfidf_matrix, disk, pc, model_data, saved,
                   result>>
    /\ UNCHANGED <<csv_files, serving>>

\* What lines 33-35 do with self.df: subscripting None raises TypeError, a
\* missing column KeyError, and fit_transform may raise ValueError.
FitOutcome(d) ==
    IF ~d.loaded
    THEN [status |-> "TypeError", vectorizer |-> UnfittedVectorizer, matrix |-> NoMatrix]
    ELSE IF "Processed_Storyline" \notin d.columns
    THEN [status |-> "KeyError", vectorizer |-> UnfittedVectorizer, matrix |-> NoMatrix]
    ELSE FitTransform([i \in 1..Len(d.rows) |-> d.rows[i].Processed_Storyline])

\* The data frames load_data can produce, and self.df = None.
DataFrames == {NoDf} \cup {DataFrame(csv) : csv \in {c \in CsvFiles : c.exists}}

\* FitOutcome of every data frame, computed once.
FitTable == [d \in DataFrames |-> FitOutcome(d)]

\* create_tfidf_matrix(): line 25 replaces self.tfidf_vectorizer by a new,
\* unfitted vectorizer before anything can raise; self.tfidf_matrix is
\* assigned only when fit_transform returns.
CreateTfidfMatrix ==
    /\ Ready
    /\ LET out == FitTable[df]
       IN /\ tfidf_vectorizer' = out.vectorizer
          /\ tfidf_matrix' = IF out.status = "ok" THEN out.matrix ELSE tfidf_matrix
          /\ last' = Ended("create_tfidf_matrix", out.status)
    /\ UNCHANGED <<df, disk, pc, model_data, saved, result>>
    /\ UNCHANGED <<csv_files, serving>>

\* save_model, lines 119-125: build model_data, then open(filename, 'wb'),
\* which creates the file or truncates it to nothing.
SaveOpen ==
    /\ Ready
    /\ model_data' = ModelData(df, tfidf_vectorizer, tfidf_matrix)
    /\ disk' = [exists |-> TRUE, content |-> <<>>]
    /\ pc' = "dumping"
    /\ saved' = [data |-> [df |-> df, tfidf_vectorizer |-> tfidf_vectorizer,
                           tfidf_matrix |-> tfidf_matrix],
                 replaced |-> /\ CompleteArtifact(disk)
                              /\ disk.content #
                                   PickleDump(ModelData(df, tfidf_vectorizer,
                                                        tfidf_matrix))]
    /\ last' = Ended("save_model", "running")
    /\ UNCHANGED <<df, tfidf_vectorizer, tfidf_matrix, result>>
    /\ UNCHANGED <<csv_files, serving>>

\* save_model, line 126: pickle.dump writes the stream into the open file
\* piece by piece.
SaveWrite ==
    /\ pc = "dumping"
    /\ Len(disk.content) < Len(PickleDump(model_data))
    /\ disk' = [exists |-> TRUE,
                content |-> SubSeq(PickleDump(model_data), 1, Len(disk.content) + 1)]
    /\ UNCHANGED <<df, tfidf_vectorizer, tfidf_matrix, pc, model_data, saved, last,
                   result>>
    /\ UNCHANGED <<csv_files, serving>>

\* save_model, end of the with block: the file is closed, the call returns.
SaveClose ==
    /\ pc = "dumping"
    /\ Len(disk.content) = Len(PickleDump(model_data))
    /\ pc' = "idle"
    /\ model_data' = NoModelData
    /\ last' = Ended("save_model", "ok")
    /\ UNCHANGED <<df, tfidf_vectorizer, tfidf_matrix, disk, saved, result>>
    /\ UNCHANGED <<csv_files, serving>>

\* load_model(filename): open raises FileNotFoundError, pickle.load raises
\* on an incomplete stream; otherwise the three fields are assigned from the
\* dictionary as it is.
LoadModel ==
    /\ Ready
    /\ IF ~disk.exists
       THEN /\ last' = Ended("load_model", "FileNotFoundError")
            /\ UNCHANGED <<df, tfidf_vectorizer, tfidf_matrix>>
       ELSE \E got \in PickleLoad(disk.content) :
               IF got.status # "ok"
               THEN /\ last' = Ended("load_model", got.status)
                    /\ UNCHANGED <<df, tfidf_vectorizer, tfidf_matrix>>
               ELSE /\ df' = got.data.df
                    /\ tfidf_vectorizer' = got.data.tfidf_vectorizer
                    /\ tfidf_matrix' = got.data.tfidf_matrix
                    /\ last' = Ended("load_model", "ok")
    /\ UNCHANGED <<disk, pc, model_data, saved, result>>
    /\ UNCHANGED <<csv_files, serving>>

\* The process stops (at any point, also inside save_model) and a new
\* process constructs a fresh MovieRecommender(); the file stays as it is.
NewProcess ==
    /\ df' = NoDf
    /\ tfidf_vectorizer' = NoVectorizer
    /\ tfidf_matrix' = NoMatrix
    /\ pc' = "idle"
    /\ model_data' = NoModelData
    /\ result' = NoResult
    /\ last' = Ended("exit", "ok")
    /\ UNCHANGED <<disk, saved>>
    /\ UNCHANGED <<csv_files, serving>>

Next ==
    \/ \E csv \in CsvFiles : LoadData(csv)
    \/ CreateTfidfMatrix
    \/ SaveOpen
    \/ SaveWrite
    \/ SaveClose
    \/ LoadModel
    \/ NewProcess

\* Training, persistence and restarts of one engine instance.
Spec == Init /\ [][Next]_vars

(* ---------------------------------------------------------------------- *)
(* Title resolution                                                        *)
(* ---------------------------------------------------------------------- *)

\* str.lower() of one character of the model's alphabet.
Lower(c) ==
    CASE c = "A" -> "a"
      [] c = "B" -> "b"
      [] c = "C" -> "c"
      [] OTHER -> c

\* re.compile(pat): over the model's alphabet (letters, "." and "(") a
\* pattern compiles unless it opens a group, which nothing closes.
RegexCompiles(pat) == "(" \notin Range(pat)

\* re.search(pat, title, re.IGNORECASE) for a pattern of letters and ".":
\* "." matches any character, a letter matches itself in either case.
RegexSearch(pat, title) ==
    \E i \in 1..(Len(title) - Len(pat) + 1) :
        \A j \in 1..Len(pat) :
            pat[j] = "." \/ Lower(pat[j]) = Lower(title[i + j - 1])

\* Series.str.contains(pat, case=False, na=False) on one cell: regex=True
\* is the default, and an empty cell (NaN) counts as no match.
StrContains(title, pat) == title # <<>> /\ RegexSearch(pat, title)

\* Line 43: the index of the rows whose title matches.
MovieIndices(d, movie_name) ==
    {i \in 0..(Len(d.rows) - 1) : StrContains(d.rows[i + 1].Movie_Name, movie_name)}

SetMin(S) == CHOOSE x \in S : \A y \in S : x <= y

(* ---------------------------------------------------------------------- *)
(* Ranking                                                                 *)
(* ---------------------------------------------------------------------- *)

\* cosine_similarities.argsort(): the row indices in ascending order of
\* score.  The default sort kind is not stable, so the order of rows with
\* equal scores depends on the NumPy build: every order is an outcome.
ArgsortOutcomes(scores) ==
    {p \in Perms(Len(scores)) :
        \A i, j \in 1..Len(scores) : i < j => scores[p[i] + 1] <= scores[p[j] + 1]}

\* Line 57: argsort()[-top_n-1:-1][::-1].
SimilarIndicesBeforeLast(sorted, top_n) ==
    Reverse(Slice(sorted, Max(Len(sorted) - top_n - 1, 0), Len(sorted) - 1))

\* Line 105: argsort()[-top_n:][::-1].
SimilarIndices(sorted, top_n) ==
    Reverse(Slice(sorted, Max(Len(sorted) - top_n, 0), Len(sorted)))

\* One recommendation; idx is the row it was built from (the dictionary
\* of the code holds the other three fields).
Recommendation(d, scores, idx) ==
    [idx |-> idx,
     Movie_Name |-> d.rows[idx + 1].Movie_Name,
     Storyline |-> d.rows[idx + 1].Storyline,
     Similarity_Score |-> scores[idx + 1]]

\* A loop that appends every index, the query's own too.
KeptIndicesUnfiltered(similar_indices, movie_idx) == similar_indices

\* Lines 60-61: the indices the loop appends a recommendation for.
KeptIndices(similar_indices, movie_idx) ==
    SelectSeq(similar_indices, LAMBDA idx : idx # movie_idx)

\* Lines 59-68 and 107-115: df.iloc[idx] raises IndexError for an index
\* beyond the data frame; otherwise the list of recommendations, cut to
\* top_n.
BuildRecommendations(d, scores, kept, top_n) ==
    IF \E k \in 1..Len(kept) : kept[k] >= Len(d.rows)
    THEN [status |-> "IndexError", recs |-> <<>>]
    ELSE [status |-> "ok",
          recs |-> SubSeq([k \in 1..Len(kept) |-> Recommendation(d, scores, kept[k])],
                          1, Min(top_n, Len(kept)))]

(* ---------------------------------------------------------------------- *)
(* Normalization of a free-text query                                      *)
(* ---------------------------------------------------------------------- *)

\* NLTK: package not installed; stopwords corpus missing (with or without
\* wordnet); only the wordnet corpus missing; punkt tokenizer data missing;
\* everything present.
NltkStates == {"missing", "no_corpora", "no_wordnet", "no_punkt", "ok"}

\* clean_text on one whitespace-separated word: lower case, then every
\* character that is not a letter removed.
CleanWord(w) ==
    CASE w = "A" -> "a"
      [] w = "No" -> "no"
      [] w = "world!" -> "world"
      [] w = "2024" -> ""
      [] OTHER -> w

\* clean_text: the cleaned words; a word cleaned to nothing disappears with
\* the whitespace around it.
clean_text(text) ==
    SelectSeq([i \in 1..Len(text) |-> CleanWord(text[i])], LAMBDA w : w # "")

\* The words of the model that are in stopwords.words('english').
StopWords == {"a", "against", "in", "the", "to"}

\* WordNetLemmatizer().lemmatize(word) (as a noun) on the words of the model.
Lemmatize(w) ==
    CASE w = "saves" -> "save"
      [] w = "pirates" -> "pirate"
      [] w = "fights" -> "fight"
      [] w = "forces" -> "force"
      [] OTHER -> w

\* Lines 85-96: with NLTK and its data, stop words and words of at most two
\* characters are dropped and the rest lemmatized; a LookupError falls back
\* to dropping the short words only.  stopwords.words raises it without
\* the stopwords corpus, word_tokenize without punkt, and lemmatize without
\* wordnet: the lemmatizer loads wordnet when it is first called, which is
\* for the first word kept.
ProcessQuery(cleaned, env) ==
    LET keep == SelectSeq(cleaned, LAMBDA w : w \notin StopWords /\ Len(w) > 2)
    IN IF env = "ok" \/ (env = "no_wordnet" /\ keep = <<>>)
       THEN [i \in 1..Len(keep) |-> Lemmatize(keep[i])]
       ELSE SelectSeq(cleaned, LAMBDA w : Len(w) > 2)

(* ---------------------------------------------------------------------- *)
(* Queries                                                                 *)
(* ---------------------------------------------------------------------- *)

\* The names find_similar_movies is called with.
QueryNames ==
    { <<>>, <<"A">>, <<"a">>, <<"b">>, <<"c">>, <<"A", "B">>, <<"(">>,
      <<".", ".">>, <<".", "b">> }

\* The raw texts find_similar_by_storyline is called with.
QueryTexts ==
    { <<"space", "pirates", "steal", "treasure">>,
      <<>>,
      <<"2024">>,
      <<"A", "hero", "saves", "the", "world!">>,
      <<"in", "the", "2024">>,
      <<"wizard", "boy">> }

\* What a query returned or raised, with what it computed on the way: env
\* is the NLTK environment of the call and processed the normalized query
\* text (free-text queries only).
Returned(op, status, query, top_n, movie_idx, vector, scores, recs, env, processed) ==
    [op |-> op, status |-> status, query |-> query, top_n |-> top_n,
     movie_idx |-> movie_idx, vector |-> vector, scores |-> scores, recs |-> recs,
     env |-> env, processed |-> processed]

\* find_similar_movies(movie_name, top_n) on the fields d, m with the
\* argsort outcome pick(scores): what the call returns or raises.
\* Subscripting self.df = None raises TypeError, a pattern that does not
\* compile re.error; no match returns None; subscripting
\* self.tfidf_matrix = None raises TypeError; a row slice beyond the
\* matrix is empty and cosine_similarity raises ValueError.
SimilarMoviesOutcomes(d, m, movie_name, top_n) ==
    LET Out(status, movie_idx, scores, recs) ==
            Returned("find_similar_movies", status, movie_name, top_n, movie_idx,
                     <<>>, scores, recs, "unused", <<>>)
        movie_indices == MovieIndices(d, movie_name)
        movie_idx == SetMin(movie_indices)
        scores    == CosineSimilarity(m.rows[movie_idx + 1], m.rows)
    IN IF ~d.loaded THEN {Out("TypeError", -1, <<>>, <<>>)}
       ELSE IF ~RegexCompiles(movie_name) THEN {Out("re.error", -1, <<>>, <<>>)}
       ELSE IF movie_indices = {} THEN {Out("None", -1, <<>>, <<>>)}
       ELSE IF ~m.present THEN {Out("TypeError", movie_idx, <<>>, <<>>)}
       ELSE IF movie_idx >= Len(m.rows) THEN {Out("ValueError", movie_idx, <<>>, <<>>)}
       ELSE {LET similar_indices == SimilarIndicesBeforeLast(sorted, top_n)
                 built == BuildRecommendations(
                              d, scores, KeptIndices(similar_indices, movie_idx), top_n)
             IN Out(built.status, movie_idx, scores, built.recs) :
             sorted \in ArgsortOutcomes(scores)}

\* find_similar_by_storyline(user_storyline, top_n) in the NLTK environment
\* env.  Importing preprocess_data runs its unguarded "import nltk", which
\* raises ImportError without the package.  transform on
\* self.tfidf_vectorizer = None raises AttributeError, on an unfitted
\* vectorizer NotFittedError.  A fitted vectorizer always comes with its
\* matrix.
SimilarByStorylineOutcomes(d, v, m, user_storyline, top_n, env) ==
    LET processed  == ProcessQuery(clean_text(user_storyline), env)
        Out(status, vector, scores, recs) ==
            Returned("find_similar_by_storyline", status, user_storyline, top_n, -1,
                     vector, scores, recs, env,
                     IF status = "ImportError" THEN <<>> ELSE processed)
        user_tfidf == Transform(v, processed)
        scores     == CosineSimilarity(user_tfidf, m.rows)
    IN IF env = "missing" THEN {Out("ImportError", <<>>, <<>>, <<>>)}
       ELSE IF v.state = "None" THEN {Out("AttributeError", <<>>, <<>>, <<>>)}
       ELSE IF v.state = "unfitted" THEN {Out("NotFittedError", <<>>, <<>>, <<>>)}
       ELSE {LET built == BuildRecommendations(
                              d, scores, SimilarIndices(sorted, top_n), top_n)
             IN Out(built.status, user_tfidf, scores, built.recs) :
             sorted \in ArgsortOutcomes(scores)}

FindSimilarMovies(movie_name, top_n) ==
    /\ Ready
    /\ result' \in SimilarMoviesOutcomes(df, tfidf_matrix, movie_name, top_n)
    /\ UNCHANGED <<df, tfidf_vectorizer, tfidf_matrix, disk, pc, model_data, saved, last>>
    /\ UNCHANGED <<csv_files, serving>>

FindSimilarByStoryline(user_storyline, top_n, env) ==
    /\ Ready
    /\ result' \in SimilarByStorylineOutcomes(df, tfidf_vectorizer, tfidf_matrix,
                                              user_storyline, top_n, env)
    /\ UNCHANGED <<df, tfidf_vectorizer, tfidf_matrix, disk, pc, model_data, saved, last>>
    /\ UNCHANGED <<csv_files, serving>>

\* The caller takes the returned value (or handles the exception).
TakeResult ==
    /\ result # NoResult
    /\ result' = NoResult
    /\ UNCHANGED <<df, tfidf_vectorizer, tfidf_matrix, disk, pc, model_data, saved, last>>
    /\ UNCHANGED <<csv_files, serving>>

QueryNext ==
    \/ \E csv \in CsvFiles : LoadData(csv)
    \/ CreateTfidfMatrix
    \/ \E movie_name \in QueryNames, top_n \in 1..MaxTopN :
           FindSimilarMovies(movie_name, top_n)
    \/ \E user_storyline \in QueryTexts, top_n \in 1..MaxTopN, env \in NltkStates :
           FindSimilarByStoryline(user_storyline, top_n, env)
    \/ TakeResult

\* Training and queries of one engine instance.  The queries read only the
\* three fields, and load_model installs only fields that an instance held
\* when it was saved, so persistence adds no engine state to this
\* specification.
QuerySpec == Init /\ [][QueryNext]_vars

(* ---------------------------------------------------------------------- *)
(* Concurrent queries against one loaded model                             *)
(* ---------------------------------------------------------------------- *)

\* app.py caches one MovieRecommender for the whole server
\* (@st.cache_resource, lines 28-41) and every browser session runs the
\* script in a thread of its own: the sessions call find_similar_movies
\* (line 88) and find_similar_by_storyline (line 144) on the same instance,
\* and the interpreter may switch threads between any two statements.  A
\* query is therefore a sequence of steps, one per statement that reads a
\* field of the instance, each working on the locals of its thread.

\* The arguments the sessions call find_similar_movies with: a title that
\* matches, a pattern that does not compile, a title that may match
\* nothing.
ServedTitleCalls ==
    { << <<"a">>, 2 >>, << <<"(">>, 1 >>, << <<"A", "B">>, 1 >> }

\* The arguments the sessions call find_similar_by_storyline with, and the
\* NLTK environment of the server.
ServedTextCalls ==
    { << <<"A", "hero", "saves", "the", "world!">>, 2, "ok" >>,
      << <<"wizard", "boy">>, 1, "missing" >> }

\* The corpus files the served model is trained from.
ServedCsvFiles == {PrefixCsv(3), RawCsv}

\* The thread is inside a query.
InFlight(c) == c.pc \notin {"idle", "returned"}

\* No session has called a query yet: training runs before the model is
\* served.
Unserved == argsort_seen = {} /\ \A w \in Workers : calls[w] = IdleCall

\* argsort on this installation.  argsort is a function of its input: the
\* order of equal scores depends on the NumPy build, but an input that was
\* sorted before is given the same order again.
InstalledSorts(seen, scores) ==
    IF \E p \in seen : p[1] = scores
    THEN {p[2] : p \in {q \in seen : q[1] = scores}}
    ELSE ArgsortOutcomes(scores)

\* The query of thread c returns recs or raises status.
Finish(c, status, recs) ==
    [c EXCEPT !.pc = "returned",
              !.result = Returned(c.op, status, c.query, c.top_n, c.movie_idx,
                                  c.vector, c.scores, recs, c.env, c.processed)]

\* Thread w takes a step that leaves its locals as c; the step overlapped
\* another query when another thread was inside one.
Step(w, c) ==
    /\ calls' = [calls EXCEPT ![w] =
                    [c EXCEPT !.overlapped =
                        calls[w].overlapped
                            \/ \E u \in Workers \ {w} : InFlight(calls[u])]]
    /\ UNCHANGED <<disk, pc, model_data, saved, last, result, csv_files>>

\* A session calls find_similar_movies(movie_name, top_n).
CallSimilarMovies(w, movie_name, top_n) ==
    /\ calls[w].pc = "idle"
    /\ Step(w, [IdleCall EXCEPT !.pc = "line43", !.op = "find_similar_movies",
                                !.query = movie_name, !.top_n = top_n])
    /\ UNCHANGED <<df, tfidf_vectorizer, tfidf_matrix, argsort_seen>>

\* A session calls find_similar_by_storyline(user_storyline, top_n).
CallSimilarByStoryline(w, user_storyline, top_n, env) ==
    /\ calls[w].pc = "idle"
    /\ Step(w, [IdleCall EXCEPT !.pc = "line74", !.op = "find_similar_by_storyline",
                                !.query = user_storyline, !.top_n = top_n,
                                !.env = env])
    /\ UNCHANGED <<df, tfidf_vectorizer, tfidf_matrix, argsort_seen>>

\* Lines 43-48: self.df is read; TypeError on None, re.error on a pattern
\* that does not compile, None returned when no title matches.
ResolveTitle(w) ==
    LET c == calls[w]
        movie_indices == MovieIndices(df, c.query)
    IN /\ c.pc = "line43"
       /\ Step(w, IF ~df.loaded THEN Finish(c, "TypeError", <<>>)
                  ELSE IF ~RegexCompiles(c.query) THEN Finish(c, "re.error", <<>>)
                  ELSE IF movie_indices = {} THEN Finish(c, "None", <<>>)
                  ELSE [c EXCEPT !.pc = "line51", !.movie_idx = SetMin(movie_indices)])
       /\ UNCHANGED <<df, tfidf_vectorizer, tfidf_matrix, argsort_seen>>

\* Lines 74-96: the query text is normalized; nothing of the instance is
\* read.
NormalizeQuery(w) ==
    LET c == calls[w]
    IN /\ c.pc = "line74"
       /\ Step(w, IF c.env = "missing" THEN Finish(c, "ImportError", <<>>)
                  ELSE [c EXCEPT !.pc = "line99",
                                 !.processed = ProcessQuery(clean_text(c.query), c.env)])
       /\ UNCHANGED <<df, tfidf_vectorizer, tfidf_matrix, argsort_seen>>

\* What line 99 leaves in the locals: self.tfidf_vectorizer is read,
\* transform allocates the query vector.
Transformed(c, v) ==
    IF v.state = "None" THEN Finish(c, "AttributeError", <<>>)
    ELSE IF v.state = "unfitted" THEN Finish(c, "NotFittedError", <<>>)
    ELSE [c EXCEPT !.pc = "line102", !.vector = Transform(v, c.processed)]

\* A line 99 that calls fit_transform in place of transform: the shared
\* vectorizer is fitted on the query and the trained one is lost.
TransformQueryRefitting(w) ==
    /\ calls[w].pc = "line99"
    /\ Step(w, Transformed(calls[w], tfidf_vectorizer))
    /\ tfidf_vectorizer' = UnfittedVectorizer
    /\ UNCHANGED <<df, tfidf_matrix, argsort_seen>>

\* Line 99.
TransformQuery(w) ==
    /\ calls[w].pc = "line99"
    /\ Step(w, Transformed(calls[w], tfidf_vectorizer))
    /\ UNCHANGED <<df, tfidf_vectorizer, tfidf_matrix, argsort_seen>>

\* Lines 51-54: self.tfidf_matrix is read; TypeError on None, ValueError
\* on an empty row slice; cosine_similarity allocates the scores.
RowSimilarities(w) ==
    LET c == calls[w]
    IN /\ c.pc = "line51"
       /\ Step(w, IF ~tfidf_matrix.present THEN Finish(c, "TypeError", <<>>)
                  ELSE IF c.movie_idx >= Len(tfidf_matrix.rows)
                  THEN Finish(c, "ValueError", <<>>)
                  ELSE [c EXCEPT !.pc = "line57",
                                 !.scores = CosineSimilarity(
                                                tfidf_matrix.rows[c.movie_idx + 1],
                                                tfidf_matrix.rows)])
       /\ UNCHANGED <<df, tfidf_vectorizer, tfidf_matrix, argsort_seen>>

\* Line 102: self.tfidf_matrix is read.
TextSimilarities(w) ==
    LET c == calls[w]
    IN /\ c.pc = "line102"
       /\ Step(w, [c EXCEPT !.pc = "line105",
                            !.scores = CosineSimilarity(c.vector, tfidf_matrix.rows)])
       /\ UNCHANGED <<df, tfidf_vectorizer, tfidf_matrix, argsort_seen>>

\* Lines 57 and 105: the scores of the thread are sorted and sliced.
Argsort(w) ==
    LET c == calls[w]
    IN /\ c.pc \in {"line57", "line105"}
       /\ \E sorted \in InstalledSorts(argsort_seen, c.scores) :
             /\ Step(w, IF c.pc = "line57"
                        THEN [c EXCEPT !.pc = "line59",
                                       !.similar_indices =
                                           SimilarIndicesBeforeLast(sorted, c.top_n)]
                        ELSE [c EXCEPT !.pc = "line107",
                                       !.similar_indices =
                                           SimilarIndices(sorted, c.top_n)])
             /\ argsort_seen' = argsort_seen \cup {<<c.scores, sorted>>}
       /\ UNCHANGED <<df, tfidf_vectorizer, tfidf_matrix>>

\* Lines 59-68 and 107-115: self.df is read for every index of the slice
\* and the list of the thread is returned.
BuildList(w) ==
    LET c == calls[w]
        kept == IF c.pc = "line59" THEN KeptIndices(c.similar_indices, c.movie_idx)
                ELSE c.similar_indices
        built == BuildRecommendations(df, c.scores, kept, c.top_n)
    IN /\ c.pc \in {"line59", "line107"}
       /\ Step(w, Finish(c, built.status, built.recs))
       /\ UNCHANGED <<df, tfidf_vectorizer, tfidf_matrix, argsort_seen>>

\* The session displays what its query returned (app.py lines 90-123 and
\* 146-177).
TakeReturn(w) ==
    /\ calls[w].pc = "returned"
    /\ calls' = [calls EXCEPT ![w] = IdleCall]
    /\ UNCHANGED <<df, tfidf_vectorizer, tfidf_matrix, disk, pc, model_data, saved,
                   last, result, csv_files, argsort_seen>>

ConcurrentNext ==
    \/ \E csv \in ServedCsvFiles : Unserved /\ LoadData(csv)
    \/ Unserved /\ CreateTfidfMatrix
    \/ \E w \in Workers, a \in ServedTitleCalls : CallSimilarMovies(w, a[1], a[2])
    \/ \E w \in Workers, a \in ServedTextCalls :
           CallSimilarByStoryline(w, a[1], a[2], a[3])
    \/ \E w \in Workers : ResolveTitle(w)
    \/ \E w \in Workers : NormalizeQuery(w)
    \/ \E w \in Workers : TransformQuery(w)
    \/ \E w \in Workers : RowSimilarities(w)
    \/ \E w \in Workers : TextSimilarities(w)
    \/ \E w \in Workers : Argsort(w)
    \/ \E w \in Workers : BuildList(w)
    \/ \E w \in Workers : TakeReturn(w)

\* Training, then the sessions of the app querying the model in any
\* interleaving of their steps.
ConcurrentSpec == Init /\ [][ConcurrentNext]_vars

(* ---------------------------------------------------------------------- *)
(* The corpus build pipeline: dataset creation, preprocess_storylines      *)
(* ---------------------------------------------------------------------- *)

\* The placeholder the scraper stores when a page shows no storyline.
NoStoryline == <<"No", "storyline", "available">>

\* The records a dataset creator may write (Processed_Storyline is not a
\* column of that file).  The storylines are 23, 20, 19 and 21 characters
\* long, an empty cell, the placeholder (22 characters), and 29 characters.
RawLibrary ==
    << Row(<<"A">>, <<"A", "hero", "saves", "the", "world!">>, <<>>),
       Row(<<"B">>, <<"the", "hero", "fights", "evil">>, <<>>),
       Row(<<"C">>, <<"a", "hero", "saves", "a", "town">>, <<>>),
       Row(<<"a", "b">>, <<"the", "hero", "saves", "a", "town">>, <<>>),
       Row(<<"b">>, <<>>, <<>>),
       Row(<<"c">>, NoStoryline, <<>>),
       Row(<<"b", "c">>, <<"the", "hero", "fights", "space", "pirates">>, <<>>) >>

\* The elements of a set of numbers in ascending order.
Ascending(S) ==
    CHOOSE f \in [1..Cardinality(S) -> S] :
        \A i, j \in 1..Cardinality(S) : i < j => f[i] < f[j]

\* The files a dataset creator may leave at imdb_movies_2024.csv: up to
\* MaxDocs records of the library, in library order.
RawCsvFiles ==
    {CsvFile(RawColumns, [i \in 1..Cardinality(S) |-> RawLibrary[Ascending(S)[i]]]) :
        S \in {T \in SUBSET (1..Len(RawLibrary)) :
                  Cardinality(T) >= 1 /\ Cardinality(T) <= MaxDocs}}

\* create_movie_dataset() / scrape_imdb_movies(): the file
\* imdb_movies_2024.csv is written, with the columns Movie_Name and
\* Storyline (and others the engine never reads).
CreateDataset(csv) ==
    /\ Ready
    /\ raw_csv' = csv
    /\ last' = Ended("create_dataset", "ok")
    /\ UNCHANGED <<df, tfidf_vectorizer, tfidf_matrix, disk, pc, model_data, saved,
                   result, processed_csv, serving>>

\* Series.str.len() of a text: its words and the single spaces between them.
StrLen(text) ==
    IF text = <<>> THEN 0
    ELSE SumTo([i \in 1..Len(text) |-> Len(text[i])], Len(text)) + Len(text) - 1

\* Lines 50-52: the rows preprocess_storylines keeps.
ValidStoryline(row) ==
    /\ row.Storyline # <<>>
    /\ row.Storyline # NoStoryline
    /\ StrLen(row.Storyline) > min_storyline_len

\* Lines 4-25 and 57-64: use_nltk after the tools are set up.
\* NLTK_AVAILABLE is false when the guarded imports fail (no package);
\* stopwords.words raises LookupError without the stopwords corpus;
\* WordNetLemmatizer() loads nothing yet.
UseNltk(env) == env \notin {"missing", "no_corpora"}

\* process_text, lines 73-84: with use_nltk the text is tokenized, stop
\* words and words of at most two characters are dropped and the rest
\* lemmatized; any exception (word_tokenize raises LookupError without the
\* punkt data, lemmatize without wordnet, when the first word kept is
\* lemmatized) falls through to the simple filter.
process_text(text, env) ==
    LET tokens == SelectSeq(text, LAMBDA word : word \notin StopWords /\ Len(word) > 2)
    IN IF UseNltk(env) /\ env # "no_punkt" /\ ~(env = "no_wordnet" /\ tokens # <<>>)
       THEN [i \in 1..Len(tokens) |-> Lemmatize(tokens[i])]
       ELSE SelectSeq(text, LAMBDA w : Len(w) > 2)

\* The columns of imdb_movies_processed.csv.
PreprocessedColumns(cols) == cols \cup {"Cleaned_Storyline", "Processed_Storyline"}

\* Lines 45-89 on a file that exists and has a Storyline column: the rows
\* kept, each with its processed storyline.
Preprocessed(csv, env) ==
    LET kept == SelectSeq(csv.rows, ValidStoryline)
    IN CsvFile(PreprocessedColumns(csv.columns),
               [i \in 1..Len(kept) |->
                   Row(kept[i].Movie_Name, kept[i].Storyline,
                       process_text(clean_text(kept[i].Storyline), env))])

\* python preprocess_data.py in the NLTK environment env.  The unguarded
\* "import nltk" of line 3 raises ImportError without the package;
\* pd.read_csv raises FileNotFoundError; a file without a Storyline column
\* raises KeyError; a Storyline column of empty cells only is read as a
\* column of floats, on which .str (line 52) raises AttributeError.
\* Otherwise imdb_movies_processed.csv is written.
PreprocessStorylines(env) ==
    /\ Ready
    /\ IF env = "missing"
       THEN /\ last' = Ended("preprocess_storylines", "ImportError")
            /\ UNCHANGED processed_csv
       ELSE IF ~raw_csv.exists
       THEN /\ last' = Ended("preprocess_storylines", "FileNotFoundError")
            /\ UNCHANGED processed_csv
       ELSE IF "Storyline" \notin raw_csv.columns
       THEN /\ last' = Ended("preprocess_storylines", "KeyError")
            /\ UNCHANGED processed_csv
       ELSE IF /\ raw_csv.rows # <<>>
               /\ \A i \in 1..Len(raw_csv.rows) : raw_csv.rows[i].Storyline = <<>>
       THEN /\ last' = Ended("preprocess_storylines", "AttributeError")
            /\ UNCHANGED processed_csv
       ELSE /\ processed_csv' = Preprocessed(raw_csv, env)
            /\ last' = Ended("preprocess_storylines", "ok")
    /\ UNCHANGED <<df, tfidf_vectorizer, tfidf_matrix, disk, pc, model_data, saved,
                   result, raw_csv, serving>>

\* The text train_model tests the model with (line 150).
test_storyline ==
    <<"A", "hero", "fights", "against", "evil", "forces", "to", "save", "the", "world">>

\* python recommendation_engine.py, that is train_model(), in the NLTK
\* environment env: a new MovieRecommender, load_data() with its default
\* file imdb_movies_2024.csv, create_tfidf_matrix(), save_model(), then the
\* test query with top_n=5.  The first call that raises ends the run; the
\* instance ends with the process.
TrainModel(env) ==
    /\ Ready
    /\ LET d     == DataFrame(raw_csv)
           out   == FitOutcome(d)
           md    == ModelData(d, out.vectorizer, out.matrix)
           tests == SimilarByStorylineOutcomes(d, out.vectorizer, out.matrix,
                                               test_storyline, 5, env)
       IN IF ~raw_csv.exists
          THEN /\ last' = Ended("train_model", "FileNotFoundError")
               /\ UNCHANGED <<disk, saved>>
          ELSE IF out.status # "ok"
          THEN /\ last' = Ended("train_model", out.status)
               /\ UNCHANGED <<disk, saved>>
          ELSE /\ disk' = [exists |-> TRUE, content |-> PickleDump(md)]
               /\ saved' = [data |-> [df |-> d, tfidf_vectorizer |-> out.vectorizer,
                                      tfidf_matrix |-> out.matrix],
                            replaced |-> /\ CompleteArtifact(disk)
                                         /\ disk.content # PickleDump(md)]
               /\ \E t \in tests : last' = Ended("train_model", t.status)
    /\ df' = NoDf
    /\ tfidf_vectorizer' = NoVectorizer
    /\ tfidf_matrix' = NoMatrix
    /\ UNCHANGED <<pc, model_data, result>>
    /\ UNCHANGED <<csv_files, serving>>

PipelineNext ==
    \/ \E csv \in RawCsvFiles : CreateDataset(csv)
    \/ \E env \in NltkStates : PreprocessStorylines(env)
    \/ \E env \in NltkStates : TrainModel(env)

\* The scripts of the repository run from one working directory.
PipelineSpec == Init /\ [][PipelineNext]_vars

(* ---------------------------------------------------------------------- *)
(* Claims about the corpus build pipeline (checked under PipelineSpec)     *)
(* ---------------------------------------------------------------------- *)

\* A record with no storyline, the placeholder, or a storyline of fewer
\* than 20 characters.
Excluded(row) ==
    \/ row.Storyline = <<>>
    \/ row.Storyline = NoStoryline
    \/ StrLen(row.Storyline) < min_storyline_len

\* Name and storyline of the rows of a file, in order.
Records(rows) ==
    [i \in 1..Len(rows) |-> <<rows[i].Movie_Name, rows[i].Storyline>>]

\* C11: a record is excluded before fitting if and only if its storyline is
\* missing, the placeholder or shorter than 20 characters (one of exactly
\* 20 characters is kept): the file preprocess_storylines writes holds
\* exactly the other records, and the corpus a training pass fits holds no
\* excluded record.
C11_ExcludedIffShorterThanTwenty ==
    /\ last = Ended("preprocess_storylines", "ok") =>
          Records(processed_csv.rows) =
              Records(SelectSeq(raw_csv.rows, LAMBDA row : ~Excluded(row)))
    /\ CompleteArtifact(disk) =>
          LET fit == Unpickled(disk.content).df
          IN \A i \in 1..Len(fit.rows) : ~Excluded(fit.rows[i])

\* The processed file is the normalizer's output for the dataset file as
\* it is, and a corpus the vectorizer can be fitted on.
PipelineRan ==
    /\ raw_csv.exists
    /\ \E env \in NltkStates \ {"missing"} : processed_csv = Preprocessed(raw_csv, env)
    /\ FitOutcome(DataFrame(processed_csv)).status = "ok"

\* C13: when dataset creation, preprocess_storylines and train_model have
\* run in this order with their default file names, train_model has ended
\* without an exception, a complete model artifact is persisted, and the
\* documents it was fitted on are the rows of the file the normalizer
\* wrote.
C13_PipelinePersistsNormalizedModel ==
    (last.op = "train_model" /\ PipelineRan) =>
        /\ last.status = "ok"
        /\ CompleteArtifact(disk)
        /\ Unpickled(disk.content).df = DataFrame(processed_csv)

(* ---------------------------------------------------------------------- *)
(* Claims about training and persistence (checked under Spec)              *)
(* ---------------------------------------------------------------------- *)

\* Matrix row count == document list length.
RowsMatch(d, m) == Len(m.rows) = Len(d.rows)

\* Matrix column count == vocabulary size (an unfitted vectorizer has no
\* vocabulary).
ColsMatch(v, m) == m.ncols = Len(v.vocabulary_)

\* C7: save_model is atomic with respect to crashes: whenever no save_model
\* is running, the artifact file is absent or a complete artifact (the
\* previous one or the new one), never a partially written file, and so no
\* load_model ever fails on a truncated artifact.
C7_SaveIsAtomic ==
    /\ (pc = "idle" /\ disk.exists) => CompleteArtifact(disk)
    /\ last.op = "load_model" => last.status \notin {"EOFError", "UnpicklingError"}

\* C8: load_model validates the artifact: a load that succeeded installed
\* a matrix whose row count equals the document list length and whose
\* column count equals the vocabulary size (an artifact violating either
\* is rejected and not installed).
C8_LoadValidates ==
    (last = Ended("load_model", "ok") /\ tfidf_matrix.present)
        => RowsMatch(df, tfidf_matrix) /\ ColsMatch(tfidf_vectorizer, tfidf_matrix)

\* C9: round trip and overwrite: after a load_model that succeeded the
\* instance holds exactly the documents, vectorizer and matrix that the
\* last save_model to write the file was called on; and when save_model returns,
\* the file holds exactly the saving instance's three fields, whatever the
\* file held before.
C9_RoundTrip ==
    /\ last = Ended("load_model", "ok") =>
          [df |-> df, tfidf_vectorizer |-> tfidf_vectorizer,
           tfidf_matrix |-> tfidf_matrix] = saved.data
    /\ last = Ended("save_model", "ok") =>
          /\ disk.exists
          /\ PickleLoad(disk.content) =
                {[status |-> "ok",
                  data |-> [df |-> df, tfidf_vectorizer |-> tfidf_vectorizer,
                            tfidf_matrix |-> tfidf_matrix]]}

\* C9 witness: a trained model was saved over a different complete
\* artifact and loaded back.
C9_Witness ==
    /\ last = Ended("load_model", "ok")
    /\ saved.replaced
    /\ tfidf_matrix.present /\ tfidf_vectorizer.state = "fitted"
    /\ Len(df.rows) >= 3

\* C10: whenever the instance holds a matrix, documents, vectorizer and
\* matrix are of one training generation (rows == documents, columns ==
\* vocabulary), and so is every complete artifact on disk.
C10_SameGeneration ==
    /\ tfidf_matrix.present =>
          RowsMatch(df, tfidf_matrix) /\ ColsMatch(tfidf_vectorizer, tfidf_matrix)
    /\ CompleteArtifact(disk) =>
          LET md == Unpickled(disk.content)
          IN md.tfidf_matrix.present =>
                /\ RowsMatch(md.df, md.tfidf_matrix)
                /\ ColsMatch(md.tfidf_vectorizer, md.tfidf_matrix)

(* ---------------------------------------------------------------------- *)
(* Claims about the queries (checked under QuerySpec)                      *)
(* ---------------------------------------------------------------------- *)

\* The instance holds a trained model of one generation.
Trained ==
    /\ df.loaded /\ tfidf_matrix.present /\ tfidf_vectorizer.state = "fitted"
    /\ RowsMatch(df, tfidf_matrix) /\ ColsMatch(tfidf_vectorizer, tfidf_matrix)

\* find_similar_movies returned a list on a trained model.
RankedByTitle == Trained /\ result.op = "find_similar_movies" /\ result.status = "ok"

\* find_similar_by_storyline returned a list on a trained model.
RankedByText == Trained /\ result.op = "find_similar_by_storyline" /\ result.status = "ok"

\* The row indices of the returned list, in order.
ReturnedIdx == [k \in 1..Len(result.recs) |-> result.recs[k].idx]

\* Position of a row index in the returned list, 0 when absent.
PosOf(idx) ==
    IF idx \in Range(ReturnedIdx)
    THEN CHOOSE k \in 1..Len(ReturnedIdx) : ReturnedIdx[k] = idx
    ELSE 0

\* C1: find_similar_movies returns exactly min(top_n, N-1) entries for a
\* corpus of N documents, also when another row ties with the query row's
\* self-score and when the query row is all-zero.
C1_TopNCount ==
    RankedByTitle =>
        Len(result.recs) = Min(result.top_n, Len(df.rows) - 1)

\* C2: on the scenario corpus, ranking against "A" with top_n = 2 returns B,
\* and B before C; and in every ranking by title no other document that is
\* left out scores higher than a document that is returned.
C2_ScenarioAndTopScores ==
    /\ (RankedByTitle /\ df = DataFrame(ScenarioCsv) /\ result.query = <<"A">>
            /\ result.top_n = 2)
          => /\ PosOf(1) > 0
             /\ PosOf(2) > 0 => PosOf(1) < PosOf(2)
    /\ RankedByTitle =>
          \A out \in (0..(Len(df.rows) - 1)) \ (Range(ReturnedIdx) \cup {result.movie_idx}) :
              \A k \in 1..Len(result.recs) :
                  result.scores[out + 1] <= result.scores[ReturnedIdx[k] + 1]

\* C3: both queries return their list in descending order of score, rows
\* of equal score in ascending order of row index.
C3_DescendingAscendingTies ==
    (RankedByTitle \/ RankedByText) =>
        \A i, j \in 1..Len(result.recs) :
            i < j =>
                \/ result.scores[ReturnedIdx[i] + 1] > result.scores[ReturnedIdx[j] + 1]
                \/ /\ result.scores[ReturnedIdx[i] + 1] = result.scores[ReturnedIdx[j] + 1]
                   /\ ReturnedIdx[i] < ReturnedIdx[j]

\* The query vector was computed and is all-zero.
ZeroQueryVector ==
    /\ result.op = "find_similar_by_storyline"
    /\ result.vector # <<>>
    /\ \A j \in 1..Len(result.vector) : result.vector[j] = 0

\* C4: a free-text query whose vector is all-zero raises nothing and
\* returns min(top_n, N) entries, all of score zero: rows 0, 1, ...,
\* in matrix order.
C4_ZeroQueryFirstRows ==
    (Trained /\ ZeroQueryVector) =>
        /\ result.status = "ok"
        /\ Len(result.recs) = Min(result.top_n, Len(df.rows))
        /\ \A k \in 1..Len(result.recs) :
              result.recs[k].Similarity_Score = 0 /\ result.recs[k].idx = k - 1

\* The title holds the name as a case-insensitive literal substring.
ContainsLiteral(title, name) ==
    \E i \in 1..(Len(title) - Len(name) + 1) :
        \A j \in 1..Len(name) : Lower(name[j]) = Lower(title[i + j - 1])

\* C5: title resolution takes the lowest-index row whose stored title
\* contains the name as a case-insensitive literal substring, whatever
\* characters the name holds, and returns None without raising when no
\* title contains it.
C5_LiteralTitleResolution ==
    (result.op = "find_similar_movies" /\ df.loaded) =>
        LET literal == {i \in 0..(Len(df.rows) - 1) :
                           ContainsLiteral(df.rows[i + 1].Movie_Name, result.query)}
        IN /\ literal = {} => result.status = "None"
           /\ literal # {} => /\ result.status \notin {"None", "re.error"}
                              /\ result.movie_idx = SetMin(literal)

\* C6: the list find_similar_movies returns never holds the query's own
\* row.
C6_ExcludesQueryRow ==
    (result.op = "find_similar_movies" /\ result.status = "ok") =>
        \A k \in 1..Len(result.recs) : result.recs[k].idx # result.movie_idx

\* C6 witness: a list was returned for a query row whose self-score ties
\* with another row's, and the query row had to be filtered out of the
\* slice (the list is one entry short).
C6_Witness ==
    /\ RankedByTitle
    /\ \E j \in 0..(Len(df.rows) - 1) :
          j # result.movie_idx /\ result.scores[j + 1] = result.scores[result.movie_idx + 1]
    /\ Len(result.recs) >= 1
    /\ Len(result.recs) < Min(result.top_n, Len(df.rows) - 1)

\* What thread c's query returns when it runs alone on the fields d, v, m:
\* the outcomes of the whole call, ranked by the installation's argsort.
AloneOutcomes(c, d, v, m, seen) ==
    LET whole == IF c.op = "find_similar_movies"
                 THEN SimilarMoviesOutcomes(d, m, c.query, c.top_n)
                 ELSE SimilarByStorylineOutcomes(d, v, m, c.query, c.top_n, c.env)
        Kept(r, sorted) ==
            IF c.op = "find_similar_movies"
            THEN KeptIndices(SimilarIndicesBeforeLast(sorted, c.top_n), r.movie_idx)
            ELSE SimilarIndices(sorted, c.top_n)
    IN {r \in whole :
           r.scores # <<>> =>
               \E sorted \in InstalledSorts(seen, r.scores) :
                   LET built == BuildRecommendations(d, r.scores, Kept(r, sorted), c.top_n)
                   IN r.status = built.status /\ r.recs = built.recs}

\* A step of a query, from the call to the return.
QueryStep == \E w \in Workers : calls'[w] # calls[w] /\ calls[w].pc # "returned"

\* Every query that has returned holds the result of running it alone.
SameAsAlone ==
    \A w \in Workers :
        calls[w].pc = "returned" =>
            AloneOutcomes(calls[w], df, tfidf_vectorizer, tfidf_matrix, argsort_seen)
                = {calls[w].result}

BuildOutcome(text, env) ==
    IF env = "missing"
    THEN [status |-> "ImportError", tokens |-> <<>>]
    ELSE [status |-> "ok", tokens |-> process_text(clean_text(text), env)]

\* C14: in every NLTK environment (package missing, stopwords or wordnet
\* data missing, tokenizer data missing, all present) the normalization of
\* a free-text query yields a token string, the one that corpus-build
\* normalization yields for the same text, and raises nothing.
C14_SameNormalization ==
    result.op = "find_similar_by_storyline" =>
        LET build == BuildOutcome(result.query, result.env)
        IN /\ result.status # "ImportError"
           /\ build.status = "ok"
           /\ result.processed = build.tokens

====
